---- MODULE Spec2Model ----
(***************************************************************************)
(* Model of magpylib's batch dispatch engine getBH_level2                  *)
(* (src/magpylib/_lib/fields/field_wrap_BH_level2.py) and of the Sphere,   *)
(* Cuboid and Loop field kernels (src/magpylib/_src/fields).               *)
(*                                                                         *)
(* Conventions of the model:                                               *)
(*  - a 3-vector position is one integer, a rotation is +1 or -1 and       *)
(*    r.apply(x) is r*x; a field value is one integer;                     *)
(*  - an ndarray is a record [shape, data]; data is the row-major flat     *)
(*    sequence of its cells, the trailing axis of size 3 being one cell;   *)
(*  - indices are 1-based where Python's are 0-based.                      *)
(***************************************************************************)
EXTENDS Integers, Sequences, FiniteSets, TLC

\* ------------------------------------------------------------------ bounds
MaxReq == 2      \* entries in the requested source list
MaxPath == 3     \* path length of an object
MaxSens == 2     \* sensors in the observer list

\* ------------------------------------------------------- generic helpers
RECURSIVE SeqSum(_)
SeqSum(s) == IF s = <<>> THEN 0 ELSE Head(s) + SeqSum(Tail(s))

RECURSIVE Prod(_)
Prod(s) == IF s = <<>> THEN 1 ELSE Head(s) * Prod(Tail(s))

RECURSIVE Flatten(_)
Flatten(ss) == IF ss = <<>> THEN <<>> ELSE Head(ss) \o Flatten(Tail(ss))

MaxOf(S) == CHOOSE x \in S : \A y \in S : y <= x

Range(s) == {s[i] : i \in DOMAIN s}

NoDup(s) == \A i, j \in DOMAIN s : i # j => s[i] # s[j]

SeqsUpTo(S, n) == UNION {[1..len -> S] : len \in 0..n}

\* ------------------------------------------------------- the object model
SrcIds == {"b1", "b2", "c1", "x1"}
SensIds == {"k1", "k2"}
PosSensor == "kpos"       \* the Sensor built around bare observer positions
ObjIds == SrcIds \cup SensIds \cup {PosSensor}

\* isinstance(src, mag3.magnet.Box) / Cylinder; x1 is a source of another class
TypeOf(s) == CASE s \in {"b1", "b2"} -> "Box"
               [] s = "c1" -> "Cylinder"
               [] OTHER -> "Sphere"

mag(s) == CASE s = "b1" -> 1 [] s = "b2" -> 2 [] s = "c1" -> 3 [] OTHER -> 5
dim(s) == CASE s = "b1" -> 1 [] s = "b2" -> 3 [] s = "c1" -> 2 [] OTHER -> 4

\* sens.pos_pix: shape (N1, N2, ..., 3) and its pixels, flattened
pos_pix(k) == CASE k = "k1" -> [shape |-> <<3>>, data |-> <<0>>]
                [] k = "k2" -> [shape |-> <<1, 2, 3>>, data |-> <<1, 2>>]
                [] OTHER -> [shape |-> <<2, 3>>, data |-> <<4, 6>>]

Base(o) == CASE o = "b1" -> 10 [] o = "b2" -> 20 [] o = "c1" -> 30
             [] o = "x1" -> 40 [] o = "k1" -> 50 [] o = "k2" -> 60
             [] OTHER -> 0

\* a position path and a rotation path of length len
PosPath(o, len) == [j \in 1..len |-> Base(o) + j]
RotPath(o, len) == [j \in 1..len |-> IF j % 2 = 1 THEN 1 ELSE -1]

\* an entry of the requested source list: one source, or a Collection
Single(s) == [col |-> FALSE, srcs |-> <<s>>]
Collection(ss) == [col |-> TRUE, srcs |-> ss]
\* a Collection is an ordered set of sources: of none, one or both of these
CollMembers == <<"b1", "c1">>
Entries == {Single(s) : s \in SrcIds}
             \cup {Collection(SubSeq(CollMembers, 1, len)) : len \in 0..Len(CollMembers)}

\* the objects that may have a path, and the path lengths they may have: a
\* source is static or has MaxPath-1 or MaxPath steps, a sensor is static or
\* has MaxPath steps
Movers == {"b1", "k1"}
PathLens(o) == IF o \in SrcIds THEN {1, MaxPath - 1, MaxPath} ELSE {1, MaxPath}


\* ----------------------------------------------------------------- ndarray
\* number of cells of an array of this shape (the trailing axis is one cell)
Cells(shape) == Prod(shape) \div 3
NRows(A) == A.shape[1]
RowLen(A) == Cells(Tail(A.shape))
\* A[i]
Row(A, i) == SubSeq(A.data, (i - 1) * RowLen(A) + 1, i * RowLen(A))
\* A[i] = r
SetRow(A, i, r) ==
    [A EXCEPT !.data = SubSeq(A.data, 1, (i - 1) * RowLen(A)) \o r
                         \o SubSeq(A.data, i * RowLen(A) + 1, Len(A.data))]
\* np.sum(A[lo:hi+1], axis=0): the slice is clipped to the rows A has
SumRows(A, lo, hi) ==
    LET top == IF hi > NRows(A) THEN NRows(A) ELSE hi
    IN [c \in 1..RowLen(A) |-> SeqSum([i \in 1..(top - lo + 1) |-> Row(A, lo + i - 1)[c]])]
\* np.delete(A, np.s_[lo:hi+1], 0): the slice is clipped to the rows A has
DeleteRows(A, lo, hi) ==
    LET top == IF hi > NRows(A) THEN NRows(A) ELSE hi
        gone == IF top < lo THEN 0 ELSE top - lo + 1
    IN IF gone = 0 THEN A
       ELSE [shape |-> <<NRows(A) - gone>> \o Tail(A.shape),
             data |-> SubSeq(A.data, 1, (lo - 1) * RowLen(A))
                        \o SubSeq(A.data, top * RowLen(A) + 1, Len(A.data))]
\* np.empty(shape): the cells hold whatever was in memory
np_empty(shape, g) == [shape |-> shape, data |-> [c \in 1..Cells(shape) |-> g]]
\* np.sum(A, axis=0)
np_sum0(A) == [shape |-> Tail(A.shape), data |-> SumRows(A, 1, NRows(A))]
\* np.squeeze(A)
np_squeeze(A) == [shape |-> SelectSeq(A.shape, LAMBDA d : d # 1), data |-> A.data]

\* ------------------------------------------------- helpers of math_utility
\* format_src_input(sources): flatten Collections
format_src_input(srcs) == Flatten([i \in DOMAIN srcs |-> srcs[i].srcs])

\* get_good_path_length(obj_list): m, or the path error
get_good_path_length(lens) ==
    LET mm == MaxOf(Range(lens))
    IN [ok |-> \A i \in DOMAIN lens : lens[i] \in {1, mm}, m |-> mm]

\* all_same(lst)
all_same(lst) == \A i \in DOMAIN lst : lst[i] = lst[1]

\* np.tile(path, (mm,1)): mm copies of the path, one after the other
np_tile(path, mm) == [j \in 1..(mm * Len(path)) |-> path[((j - 1) % Len(path)) + 1]]

\* getBH_level1: the field of one row of the columnar input
Kernel(is_b, src_type, row) ==
    (IF is_b THEN 1 ELSE 2) * (IF src_type = "Box" THEN 1 ELSE 7)
        * row.mag * row.rot * (row.pos_obs - row.pos) + row.dim
getBH_level1(is_b, src_type, src_dict) ==
    [r \in DOMAIN src_dict |-> Kernel(is_b, src_type, src_dict[r])]


\* ------------------------------------------------------------------- state
VARIABLES
    bh,             \* TRUE = getB, FALSE = getH
    sources,        \* the requested source list (sources and Collections)
    observers,      \* the observers: a list of sensors, or bare positions
    sumup,          \* sum over the sources
    pos, rot,       \* obj._pos and obj._rot of every object
    pos0, rot0,     \* obj._pos and obj._rot when the call was made
    pc,             \* the statement getBH_level2 is at
    m,              \* the common path length
    reset_objects,  \* the objects that were tiled up
    ti,             \* index of the running for-loop
    poso,           \* the merged observer positions, shape (m*n, 3)
    B,              \* the field array
    warned,         \* the pixel-shape WARNING was printed
    err,            \* the error the call ended with
    calls,          \* the src_type of every getBH_level1 call made, in order
    kernel,         \* the field kernel that is called
    field,          \* its field argument
    batch,          \* its array arguments, row by row
    kpc,            \* where the kernel call is
    BHJM,           \* the array the kernel returns
    kerr,           \* the exception the kernel raised
    stored,         \* the buffers the kernel has stored into
    retbuf          \* the buffer of the array the kernel returns

lvars == <<bh, sources, observers, sumup, pos, rot, pos0, rot0, pc, m,
           reset_objects, ti, poso, B, warned, err, calls>>
kvars == <<kernel, field, batch, kpc, BHJM, kerr, stored, retbuf>>
vars == <<lvars, kvars>>

\* the contents of freshly allocated memory
Garbage == {-1000, 1000}
NoArray == [shape |-> <<>>, data |-> <<>>]

\* ---------------------------------------------- getBH_level2, line by line
\* lines 80-82
src_list == format_src_input(sources)
\* lines 84-92
sensors == IF observers.kind = "pos" THEN <<PosSensor>> ELSE observers.sens
\* the sensors alone
obj_list_sensors == sensors
\* lines 94-97
obj_list == src_list \o sensors
l0 == Len(sources)
l == Len(src_list)
k == Len(sensors)
\* lines 121-122
mn == Len(poso)
n == mn \div m

\* lines 117-120: poso[j*n + p], sensor by sensor within one path step
merged_poso ==
    Flatten([j \in 1..m |->
        Flatten([s \in 1..k |->
            [p \in DOMAIN pos_pix(sensors[s]).data |->
                rot[sensors[s]][j] * pos_pix(sensors[s]).data[p] + pos[sensors[s]][j]]])])

\* the places within the group instead of the flat indices
order_within(sl, t) ==
    [g \in 1..Cardinality({i \in 1..Len(sl) : TypeOf(sl[i]) = t}) |-> g]
\* lines 125-133: the flat indices of the sources of one type, in list order
order(sl, t) == SelectSeq([i \in 1..Len(sl) |-> i], LAMBDA i : TypeOf(sl[i]) = t)
src_sorted(sl, t) == [g \in DOMAIN order(sl, t) |-> sl[order(sl, t)[g]]]
\* no source is refused
bad_source_none(sl) == FALSE
\* lines 134-135
bad_source(sl) == \E i \in DOMAIN sl : TypeOf(sl[i]) \notin {"Box", "Cylinder"}

\* the path of a source laid out step by step within every sample
scr_dict_step_minor(group, po) ==
    LET l_group == Len(group)
        mm == Len(pos[group[1]])
        mnn == Len(po)
    IN [r \in 1..(l_group * mnn) |->
          LET src == group[((r - 1) \div mnn) + 1]
              idx == (r - 1) % mnn
          IN [mag |-> mag(src), dim |-> dim(src),
              pos |-> pos[src][(idx % mm) + 1],
              rot |-> rot[src][(idx % mm) + 1],
              pos_obs |-> po[idx + 1]]]
\* lines 10-44
scr_dict_homo_mag(group, po) ==
    LET l_group == Len(group)
        mm == Len(pos[group[1]])
        mnn == Len(po)
        nn == mnn \div mm
    IN [r \in 1..(l_group * mnn) |->
          LET src == group[((r - 1) \div mnn) + 1]
              idx == (r - 1) % mnn
          IN [mag |-> mag(src), dim |-> dim(src),
              pos |-> pos[src][(idx \div nn) + 1],
              rot |-> rot[src][(idx \div nn) + 1],
              pos_obs |-> po[idx + 1]]]

\* every row of a group written to the slot of its first source
Slot_first(ord, i) == ord[1]
\* lines 147-148 and 158-159: the slot the i-th row of a group is written to
Slot(ord, i) == ord[i]

RECURSIVE Scatter(_, _, _, _)
Scatter(A, ord, B_group, i) ==
    IF i > Len(ord) THEN A
    ELSE Scatter(SetRow(A, Slot(ord, i),
                        SubSeq(B_group, (i - 1) * RowLen(A) + 1, i * RowLen(A))),
                 ord, B_group, i + 1)

\* one call for every source of the group
Invoked_each(sl, t) == [g \in DOMAIN src_sorted(sl, t) |-> t]
\* lines 142-145 and 152-156: getBH_level1 is called once if the group is not
\* empty
Invoked(sl, t) == IF src_sorted(sl, t) = <<>> THEN <<>> ELSE <<t>>

\* lines 141-148 (Box) and 151-159 (Cylinder)
EvalGroup(A, sl, t) ==
    LET group == src_sorted(sl, t)
    IN IF group = <<>> THEN A
       ELSE Scatter(A, order(sl, t),
                    getBH_level1(bh, t, scr_dict_homo_mag(group, poso)), 1)

\* lines 164-168: the loop over the requested sources
RECURSIVE AggLoop(_, _, _)
AggLoop(srcs, i, A) ==
    IF i > Len(srcs) THEN [ok |-> TRUE, arr |-> A]
    ELSE IF ~srcs[i].col THEN AggLoop(srcs, i + 1, A)
    ELSE LET col_len == Len(srcs[i].srcs)
         IN IF i > NRows(A) THEN [ok |-> FALSE, arr |-> A]
            ELSE AggLoop(srcs, i + 1,
                         DeleteRows(SetRow(A, i, SumRows(A, i, i + col_len - 1)),
                                    i + 1, i + col_len - 1))

\* lines 163-168
Aggregate(srcs, sl, A) ==
    IF Len(sl) > Len(srcs) THEN AggLoop(srcs, 1, A) ELSE [ok |-> TRUE, arr |-> A]

\* lines 171-176
pix_shapes == [s \in 1..k |-> pos_pix(sensors[s]).shape]
sens_px_shape == <<k>> \o pix_shapes[1]
\* the array passed on as it is, whatever the pixel shapes
Reshaped_flat(A, ll0) == [ok |-> TRUE, arr |-> A]
Reshaped(A, ll0) ==
    IF all_same(pix_shapes)
    THEN [ok |-> Prod(<<ll0, m>> \o sens_px_shape) = Prod(A.shape),
          arr |-> [shape |-> <<ll0, m>> \o sens_px_shape, data |-> A.data]]
    ELSE [ok |-> TRUE, arr |-> A]

\* lines 178-182
Summed(A) == IF sumup THEN np_sum0(A) ELSE A
\* the array with its size-1 axes kept
Squeezed_keep(A) == A
Squeezed(A) == np_squeeze(A)


\* ------------------------------------------------------------ the inputs
Requests == SeqsUpTo(Entries, MaxReq)
ObsInputs == {[kind |-> "list", sens |-> ss] : ss \in SeqsUpTo(SensIds, MaxSens)}
               \cup {[kind |-> "pos", sens |-> <<>>]}
Moving(r, o) == (Range(format_src_input(r)) \cup Range(o.sens)) \cap Movers

Init ==
    \E r \in Requests, o \in ObsInputs :
      \E len \in {f \in [Moving(r, o) -> 1..MaxPath] : \A x \in Moving(r, o) : f[x] \in PathLens(x)} :
        /\ bh = TRUE
        /\ sumup \in BOOLEAN
        /\ sources = r
        /\ observers = o
        /\ pos = [x \in ObjIds |-> PosPath(x, IF x \in Moving(r, o) THEN len[x] ELSE 1)]
        /\ rot = [x \in ObjIds |-> RotPath(x, IF x \in Moving(r, o) THEN len[x] ELSE 1)]
        /\ pos0 = pos
        /\ rot0 = rot
        /\ pc = "format"
        /\ m = 0
        /\ reset_objects = <<>>
        /\ ti = 0
        /\ poso = <<>>
        /\ B = NoArray
        /\ warned = FALSE
        /\ err = "none"
        /\ calls = <<>>
        /\ kernel = "none"
        /\ field = "B"
        /\ batch = <<>>
        /\ kpc = "idle"
        /\ BHJM = <<>>
        /\ kerr = "none"
        /\ stored = {}
        /\ retbuf = "none"

Fail(e) == /\ pc' = "failed"
           /\ err' = e

\* ---------------------------------------------------------------- actions
\* lines 80-97: observers[0] of an empty list raises IndexError
Format ==
    /\ pc = "format"
    /\ IF observers.kind = "list" /\ observers.sens = <<>>
       THEN Fail("IndexError")
       ELSE pc' = "path" /\ err' = err
    /\ UNCHANGED <<bh, sources, observers, sumup, pos, rot, pos0, rot0, m,
                   reset_objects, ti, poso, B, warned>>
    /\ UNCHANGED <<kvars, calls>>

\* line 103 and line 106
PathCheck ==
    /\ pc = "path"
    /\ LET good == get_good_path_length([i \in DOMAIN obj_list |-> Len(pos[obj_list[i]])])
       IN IF good.ok
          THEN /\ m' = good.m
               /\ pc' = IF good.m > 1 THEN "tile" ELSE "merge"
               /\ ti' = 1
               /\ err' = err
          ELSE /\ Fail("PathMismatch")
               /\ UNCHANGED <<m, ti>>
    /\ UNCHANGED <<bh, sources, observers, sumup, pos, rot, pos0, rot0,
                   reset_objects, poso, B, warned>>
    /\ UNCHANGED <<kvars, calls>>

\* the objects from index `from` on that line 108 finds static
Static(from) == {j \in from..Len(obj_list) : Len(pos[obj_list[j]]) = 1}

\* lines 107-110: the loop runs to the next static object and tiles its position
TilePos ==
    /\ pc = "tile"
    /\ Static(ti) # {}
    /\ LET j == CHOOSE x \in Static(ti) : \A y \in Static(ti) : x <= y
           obj == obj_list[j]
       IN /\ reset_objects' = reset_objects \o <<obj>>
          /\ pos' = [pos EXCEPT ![obj] = np_tile(pos[obj], m)]
          /\ ti' = j
    /\ pc' = "tile_rot"
    /\ UNCHANGED <<bh, sources, observers, sumup, rot, pos0, rot0, m, poso, B,
                   warned, err>>
    /\ UNCHANGED <<kvars, calls>>

\* lines 111-112
TileRot ==
    /\ pc = "tile_rot"
    /\ rot' = [rot EXCEPT ![obj_list[ti]] = np_tile(rot[obj_list[ti]], m)]
    /\ ti' = ti + 1
    /\ pc' = "tile"
    /\ UNCHANGED <<bh, sources, observers, sumup, pos, pos0, rot0, m,
                   reset_objects, poso, B, warned, err>>
    /\ UNCHANGED <<kvars, calls>>

\* line 107: the loop ends
TileDone ==
    /\ pc = "tile"
    /\ Static(ti) = {}
    /\ pc' = "merge"
    /\ UNCHANGED <<bh, sources, observers, sumup, pos, rot, pos0, rot0, m,
                   reset_objects, ti, poso, B, warned, err>>
    /\ UNCHANGED <<kvars, calls>>

\* lines 117-122
Merge ==
    /\ pc = "merge"
    /\ poso' = merged_poso
    /\ pc' = "group"
    /\ UNCHANGED <<bh, sources, observers, sumup, pos, rot, pos0, rot0, m,
                   reset_objects, ti, B, warned, err>>
    /\ UNCHANGED <<kvars, calls>>

\* lines 125-135
Group ==
    /\ pc = "group"
    /\ IF bad_source(src_list)
       THEN Fail("SystemExit")
       ELSE pc' = "eval_box" /\ err' = err
    /\ UNCHANGED <<bh, sources, observers, sumup, pos, rot, pos0, rot0, m,
                   reset_objects, ti, poso, B, warned>>
    /\ UNCHANGED <<kvars, calls>>

\* lines 138-148
EvalBox ==
    /\ pc = "eval_box"
    /\ \E g \in Garbage : B' = EvalGroup(np_empty(<<l, m, n, 3>>, g), src_list, "Box")
    /\ pc' = "eval_cyl"
    /\ UNCHANGED <<bh, sources, observers, sumup, pos, rot, pos0, rot0, m,
                   reset_objects, ti, poso, warned, err>>
    /\ calls' = calls \o Invoked(src_list, "Box")
    /\ UNCHANGED kvars

\* lines 151-159
EvalCyl ==
    /\ pc = "eval_cyl"
    /\ B' = EvalGroup(B, src_list, "Cylinder")
    /\ pc' = "aggregate"
    /\ UNCHANGED <<bh, sources, observers, sumup, pos, rot, pos0, rot0, m,
                   reset_objects, ti, poso, warned, err>>
    /\ calls' = calls \o Invoked(src_list, "Cylinder")
    /\ UNCHANGED kvars

\* lines 163-168: B[i] = ... of a row B does not have raises IndexError
AggregateStep ==
    /\ pc = "aggregate"
    /\ LET agg == Aggregate(sources, src_list, B)
       IN IF agg.ok
          THEN B' = agg.arr /\ pc' = "reshape" /\ err' = err
          ELSE B' = B /\ Fail("IndexError")
    /\ UNCHANGED <<bh, sources, observers, sumup, pos, rot, pos0, rot0, m,
                   reset_objects, ti, poso, warned>>
    /\ UNCHANGED <<kvars, calls>>

\* lines 171-176: reshape to another size raises ValueError
Reshape ==
    /\ pc = "reshape"
    /\ LET re == Reshaped(B, l0)
       IN IF re.ok
          THEN B' = re.arr /\ pc' = "sumup" /\ err' = err
          ELSE B' = B /\ Fail("ValueError")
    /\ warned' = ~all_same(pix_shapes)
    /\ UNCHANGED <<bh, sources, observers, sumup, pos, rot, pos0, rot0, m,
                   reset_objects, ti, poso>>
    /\ UNCHANGED <<kvars, calls>>

\* lines 178-179
SumUp ==
    /\ pc = "sumup"
    /\ B' = Summed(B)
    /\ pc' = "squeeze"
    /\ UNCHANGED <<bh, sources, observers, sumup, pos, rot, pos0, rot0, m,
                   reset_objects, ti, poso, warned, err>>
    /\ UNCHANGED <<kvars, calls>>

\* line 182
Squeeze ==
    /\ pc = "squeeze"
    /\ B' = Squeezed(B)
    /\ pc' = "reset"
    /\ ti' = 1
    /\ UNCHANGED <<bh, sources, observers, sumup, pos, rot, pos0, rot0, m,
                   reset_objects, poso, warned, err>>
    /\ UNCHANGED <<kvars, calls>>

\* the whole path
First_keepAll(path) == path
\* obj.pos[0] and obj.rot[0]: the first step of the path
First(path) == <<path[1]>>

\* lines 185-186
ResetPos ==
    /\ pc = "reset"
    /\ ti <= Len(reset_objects)
    /\ pos' = [pos EXCEPT ![reset_objects[ti]] = First(pos[reset_objects[ti]])]
    /\ pc' = "reset_rot"
    /\ UNCHANGED <<bh, sources, observers, sumup, rot, pos0, rot0, m,
                   reset_objects, ti, poso, B, warned, err>>
    /\ UNCHANGED <<kvars, calls>>

\* line 187
ResetRot ==
    /\ pc = "reset_rot"
    /\ rot' = [rot EXCEPT ![reset_objects[ti]] = First(rot[reset_objects[ti]])]
    /\ ti' = ti + 1
    /\ pc' = "reset"
    /\ UNCHANGED <<bh, sources, observers, sumup, pos, pos0, rot0, m,
                   reset_objects, poso, B, warned, err>>
    /\ UNCHANGED <<kvars, calls>>

\* line 189
Return ==
    /\ pc = "reset"
    /\ ti > Len(reset_objects)
    /\ pc' = "done"
    /\ UNCHANGED <<bh, sources, observers, sumup, pos, rot, pos0, rot0, m,
                   reset_objects, ti, poso, B, warned, err>>
    /\ UNCHANGED <<kvars, calls>>

Next ==
    \/ Format
    \/ PathCheck
    \/ TilePos
    \/ TileRot
    \/ TileDone
    \/ Merge
    \/ Group
    \/ EvalBox
    \/ EvalCyl
    \/ AggregateStep
    \/ Reshape
    \/ SumUp
    \/ Squeeze
    \/ ResetPos
    \/ ResetRot
    \/ Return

Spec == Init /\ [][Next]_vars


\* ------------------------------------------------------------------ claims
PathLen(o) == Len(pos[o])
Lens0 == {Len(pos0[o]) : o \in Range(src_list) \cup Range(sensors)}
Occurrences(o) == Cardinality({i \in DOMAIN obj_list : obj_list[i] = o})
EmptyObservers == observers.kind = "list" /\ observers.sens = <<>>
Homogeneous == all_same(pix_shapes)
TotalSamples == SeqSum([s \in 1..k |-> Len(pos_pix(sensors[s]).data)])

\* C1: when getBH_level2 has returned, every object has the position path and
\* the rotation path it had when the call was made; an object is put on
\* reset_objects (tiled) at most once, and only if it was static on entry.
C1_PathsRestored ==
    /\ pc = "done" => (pos = pos0 /\ rot = rot0)
    /\ NoDup(reset_objects)
    /\ \A i \in DOMAIN reset_objects : Len(pos0[reset_objects[i]]) = 1

\* C1 witness: the call returned, and an object that is in the object list
\* twice (directly and through a Collection) was tiled.
C1_Witness ==
    /\ pc = "done"
    /\ \E i \in DOMAIN reset_objects : Occurrences(reset_objects[i]) >= 2

\* C2: when getBH_level2 has failed, every object has the path length it had
\* when the call was made.
C2_RestoredOnError ==
    pc = "failed" =>
        \A o \in ObjIds : Len(pos[o]) = Len(pos0[o]) /\ Len(rot[o]) = Len(rot0[o])

\* the field of one source alone, shape (m, n, 3)
FieldOf(src) == getBH_level1(bh, TypeOf(src), scr_dict_homo_mag(<<src>>, poso))
\* the elementwise sum of the fields of the members of a requested entry
EntryField(e) ==
    [c \in 1..(m * n) |-> SeqSum([g \in DOMAIN e.srcs |-> FieldOf(e.srcs[g])[c]])]

\* C3: after the aggregation the array has one row per requested entry, the
\* row of a Collection is the sum of the fields of its members and the row of
\* a source is its own field; the aggregation does not fail.
C3_Aggregation ==
    /\ pc = "reshape" =>
          /\ NRows(B) = l0
          /\ \A i \in 1..l0 : i <= NRows(B) => Row(B, i) = EntryField(sources[i])
    /\ ~(pc = "failed" /\ err = "IndexError" /\ ~EmptyObservers)

\* C3 on the requests without an empty Collection
C3_NonEmptyCollections ==
    (\A i \in DOMAIN sources : sources[i].srcs # <<>>) => C3_Aggregation

\* C4: m is the largest path length of the flattened sources and the sensors;
\* the call fails with the path error exactly when a path length is neither 1
\* nor m, and goes on otherwise.
C4_PathLength ==
    pc \notin {"format", "path"} /\ ~EmptyObservers =>
        /\ (pc = "failed" /\ err = "PathMismatch")
              <=> (\E x \in Lens0 : x \notin {1, MaxOf(Lens0)})
        /\ ~(pc = "failed" /\ err = "PathMismatch") => m = MaxOf(Lens0)

\* C4 witness: a call that passed the path check with a static and a moving
\* object.
C4_Witness ==
    /\ pc = "merge"
    /\ m > 1
    /\ 1 \in Lens0

\* the geometry tag of a source (a Box is a Cuboid)
GeometryTag(s) == IF TypeOf(s) = "Box" THEN "Cuboid" ELSE TypeOf(s)
SupportedGeometries ==
    {"Loop", "Polyline", "Cuboid", "Sphere", "Cylinder", "CylinderSegment",
     "Triangle", "Tetrahedron", "Dipole"}

\* C5: the call ends with the unsupported-geometry error exactly when a
\* flattened source has a geometry outside the nine supported ones, and it
\* does so before a kernel has run (B is not allocated yet).
C5_UnsupportedGeometry ==
    pc = "eval_box" \/ (pc = "failed" /\ err = "SystemExit") =>
        /\ (pc = "failed" /\ err = "SystemExit")
              <=> (\E i \in DOMAIN src_list : GeometryTag(src_list[i]) \notin SupportedGeometries)
        /\ B = NoArray

\* C6: a call with no source or no observer fails with the empty-input error.
C6_EmptyInput ==
    (sources = <<>> \/ EmptyObservers) /\ pc # "format" =>
        pc = "failed" /\ err = "EmptyInputError"

\* C7: at the reshape, the array is (rows, m, n, 3) with n the number of samples
\* of all sensors; with sensors of different pixel shapes the reshape step does
\* not fail, prints the warning and passes the array on as it is; with equal
\* pixel shapes a reshape that goes through prints no warning and gives the
\* shape (l0, m, k, N1, N2, ..., 3) to the same cells.
C7_PixelShapes ==
    /\ [](pc = "reshape" => Tail(B.shape) = <<m, TotalSamples, 3>>)
    /\ [][pc = "reshape" /\ ~Homogeneous =>
            pc' = "sumup" /\ warned' /\ B' = B]_vars
    /\ [][pc = "reshape" /\ Homogeneous /\ pc' = "sumup" =>
            /\ ~warned'
            /\ B'.shape = <<l0, m, k>> \o pix_shapes[1]
            /\ B'.data = B.data]_vars

\* C7 witness: a call with sensors of different pixel shapes went past the
\* reshape, with the warning.
C7_Witness ==
    /\ pc = "sumup"
    /\ ~Homogeneous
    /\ warned

\* the axes of a shape that are not of size 1
NonUnit(shape) == SelectSeq(shape, LAMBDA d : d # 1)
UnitCount(shape) == Len(shape) - Len(NonUnit(shape))
\* the number of sample axes N1, N2, ... of the sensors
SampleRank == Len(pix_shapes[1]) - 1

\* C8 as claimed: the rank of the returned tensor is 5 - (number of size-1 axes
\* among source, path and observer) + the rank of the sample shape.
C8_RankAsClaimed ==
    pc = "done" /\ Homogeneous /\ l0 >= 1 =>
        Len(B.shape) = 5 - UnitCount(<<l0, m, k>>) + SampleRank

\* C8 amended: with sensors of equal pixel shape the returned tensor is the
\* (L, M, K, N1, ..., Nr, 3) tensor, without the source axis when sumup is set
\* (whatever L is), with every size-1 axis dropped, sample axes included; its
\* rank is 4 + r, less one for a summed source axis, less the number of
\* size-1 axes left.
C8_Shape ==
    pc = "done" /\ Homogeneous =>
        LET full == <<l0, m, k>> \o pix_shapes[1]
            kept == IF sumup THEN Tail(full) ELSE full
        IN /\ B.shape = NonUnit(kept)
           /\ Len(B.shape) = 4 + SampleRank - (IF sumup THEN 1 ELSE 0) - UnitCount(kept)

\* C8 witness: a returned tensor of several sources, summed, for one sensor
\* with a sample axis of size 1.
C8_Witness ==
    /\ pc = "done"
    /\ Homogeneous
    /\ sumup
    /\ l0 > 1
    /\ k = 1
    /\ 1 \in Range(pix_shapes[1])

\* the tensor getBH_level2 computes for the requested list srcs, the paths
\* being tiled and the observers merged as they are in this state
FinalFor(srcs, g) ==
    LET sl == format_src_input(srcs)
        A == EvalGroup(EvalGroup(np_empty(<<Len(sl), m, n, 3>>, g), sl, "Box"),
                       sl, "Cylinder")
    IN Squeezed(Summed(Reshaped(Aggregate(srcs, sl, A).arr, Len(srcs)).arr))

TwoSources == Len(sources) = 2 /\ ~sources[1].col /\ ~sources[2].col

\* C9: with sumup set, the tensor computed for [A, B] is the tensor computed
\* for [B, A].
C9_PermutationInvariant ==
    pc = "reset" /\ ti = 1 /\ sumup /\ TwoSources =>
        \A g \in Garbage : B = FinalFor(<<sources[2], sources[1]>>, g)

\* C9 witness: the summed tensor of a Box and a Cylinder was returned.
C9_Witness ==
    /\ pc = "done"
    /\ sumup
    /\ TwoSources
    /\ TypeOf(sources[1].srcs[1]) # TypeOf(sources[2].srcs[1])


\* ------------------------------------------------------- the field kernels
\* Lengths are integers. A field vector is a record: gen is the closed-form
\* term it holds, pol3 is its polarization term in thirds of the polarization
\* unit, mu0 is the power of MU0 it was multiplied by.
\* A closed-form term [f, p] is exact: f names the expression and p lists the
\* rational numbers it is evaluated at, each fraction in lowest terms.
MaxCoord == 3    \* largest observer coordinate

Abs(x) == IF x < 0 THEN -x ELSE x
Zero3 == <<0, 0, 0>>
Scale3(c, v) == <<c * v[1], c * v[2], c * v[3]>>
Plus3(v, w) == <<v[1] + w[1], v[2] + w[2], v[3] + w[3]>>
Norm2(v) == v[1] * v[1] + v[2] * v[2] + v[3] * v[3]

Dot3(v, w) == v[1] * w[1] + v[2] * w[2] + v[3] * w[3]

RECURSIVE GCD(_, _)
GCD(a, b) == IF b = 0 THEN a ELSE GCD(b, a % b)
RECURSIVE GCDSeq(_)
GCDSeq(t) == IF t = <<>> THEN 0 ELSE GCD(Abs(Head(t)), GCDSeq(Tail(t)))
\* the numbers of t divided by their greatest common divisor: a ratio in
\* lowest terms
Reduce(t) == IF GCDSeq(t) = 0 THEN t ELSE [i \in DOMAIN t |-> t[i] \div GCDSeq(t)]

NoGen == [f |-> "none", p |-> <<>>]
ZeroField == [gen |-> NoGen, pol3 |-> Zero3, mu0 |-> 0]
\* c/3 times the polarization
PolField(c, p) == [gen |-> NoGen, pol3 |-> Scale3(c, p), mu0 |-> 0]
\* the value of a closed-form expression
GenField(g) == [gen |-> g, pol3 |-> Zero3, mu0 |-> 0]
\* f - polarization
MinusPol(f, p) == [f EXCEPT !.pol3 = Plus3(f.pol3, Scale3(-3, p))]
\* f / MU0
DivMU0(f) == [f EXCEPT !.mu0 = f.mu0 - 1]
\* f * MU0
MulMU0(f) == [f EXCEPT !.mu0 = f.mu0 + 1]

Fields == {"B", "H", "M", "J"}
\* check_field_input(field) of input_checks: raises unless field is one of the four
check_field_input(fld) == fld \in Fields

Raised(e) == [ok |-> FALSE, arr |-> <<>>, exc |-> e]
Returned(arr) == [ok |-> TRUE, arr |-> arr, exc |-> "none"]

\* field_BH_sphere.py lines 67-73: out = r > r_sphere, r_sphere = abs(diameter)/2
sphere_out(row) == 4 * Norm2(row.observers) > row.diameter * row.diameter
\* line 72: BHJM = polarization.astype(float) * 2 / 3
sphere_alloc(row) == PolField(2, row.polarization)
\* lines 83-91: the factors of the dipole expression are taken on the rows of
\* out, r_sphere**3 on all n rows: shapes (3, n_out) and (n,) go together, and
\* the result fits BHJM[out], when all rows are outside or n is 1
sphere_shapes_fit(rows) ==
    \/ \A i \in DOMAIN rows : sphere_out(rows[i])
    \/ Len(rows) = 1
\* lines 83-91: (3*sum(pol*obs)*obs - pol*r**2) / r**5 * r_sphere**3 / 3, that is
\* (vec / (3*r**2)) * (r_sphere**2 / r**2)**(3/2) with the integer vector vec;
\* exactly zero when vec or r_sphere is
dipole_term(row) ==
    LET o == row.observers
        pol == row.polarization
        r2 == Norm2(o)
        vec == Plus3(Scale3(3 * Dot3(pol, o), o), Scale3(-r2, pol))
    IN IF vec = Zero3 \/ row.diameter = 0 THEN ZeroField
       ELSE GenField([f |-> "w*q^(3/2)",
                      p |-> Reduce(vec \o <<3 * r2>>)
                              \o Reduce(<<row.diameter * row.diameter, 4 * r2>>)])
\* lines 72 and 83-91
sphere_B(row) == IF sphere_out(row) THEN dipole_term(row) ELSE sphere_alloc(row)

\* line 65: check_field_input(field)
sphere_field_check(fld) == check_field_input(fld)

\* field_BH_sphere.py lines 65-102
BHJM_magnet_sphere(fld, rows) ==
    IF ~sphere_field_check(fld) THEN Raised("FieldInputError")
    ELSE IF fld = "J"
    THEN Returned([i \in DOMAIN rows |->
            IF sphere_out(rows[i]) THEN ZeroField ELSE sphere_alloc(rows[i])])
    ELSE IF fld = "M"
    THEN Returned([i \in DOMAIN rows |->
            DivMU0(IF sphere_out(rows[i]) THEN ZeroField ELSE sphere_alloc(rows[i]))])
    ELSE IF ~sphere_shapes_fit(rows) THEN Raised("ValueError")
    ELSE IF fld = "B"
    THEN Returned([i \in DOMAIN rows |-> sphere_B(rows[i])])
    ELSE IF fld = "H"
    THEN Returned([i \in DOMAIN rows |->
            DivMU0(IF sphere_out(rows[i]) THEN sphere_B(rows[i])
                   ELSE MinusPol(sphere_B(rows[i]), rows[i].polarization))])
    ELSE Raised("ValueError")

\* field_BH_cuboid.py line 198, RTOL_SURFACE = 1e-15: d2/2 < RTOL_SURFACE * abs(D)/2
\* for integers d2 and D below 1e15
below_tol(d2, D) == d2 < 0 \/ (d2 = 0 /\ Abs(D) > 0)
\* lines 223-225: twice x_dist = abs(x) - a, with a = abs(D)/2
dist2(x, D) == 2 * Abs(x) - Abs(D)
\* lines 223-225
mask_surf(row, ax) == below_tol(Abs(dist2(row.observers[ax], row.dimension[ax])),
                                row.dimension[ax])
\* lines 228-230
mask_inside_ax(row, ax) == below_tol(dist2(row.observers[ax], row.dimension[ax]),
                                     row.dimension[ax])
\* line 231
mask_inside(row) == \A ax \in 1..3 : mask_inside_ax(row, ax)
\* lines 210-212
mask_pol_not_null(row) == row.polarization # Zero3
\* line 215
mask_dim_not_null(row) == \A ax \in 1..3 : row.dimension[ax] # 0
\* lines 234-237
mask_not_edge(row) ==
    ~(\/ mask_surf(row, 2) /\ mask_surf(row, 3) /\ mask_inside_ax(row, 1)
      \/ mask_surf(row, 1) /\ mask_surf(row, 3) /\ mask_inside_ax(row, 2)
      \/ mask_surf(row, 1) /\ mask_surf(row, 2) /\ mask_inside_ax(row, 3))
mask_gen_edges(row) == mask_pol_not_null(row) /\ mask_dim_not_null(row)
\* line 239
mask_gen(row) == mask_pol_not_null(row) /\ mask_dim_not_null(row) /\ mask_not_edge(row)
\* lines 65-182: pol_x, pol_y, pol_z times sums of np.log of a ratio of two
\* products of four lengths and of np.arctan2 of two products of lengths: the
\* value is set by the polarization and by the observer and the sides up to a
\* common positive factor
magnet_cuboid_Bfield(row) ==
    GenField([f |-> "cuboid",
              p |-> Reduce(row.observers \o row.dimension) \o row.polarization])
\* lines 249-254: zero, and magnet_cuboid_Bfield on the rows of mask_gen
cuboid_B(row) == IF mask_gen(row) THEN magnet_cuboid_Bfield(row) ELSE ZeroField

\* line 200: check_field_input(field)
cuboid_field_check(fld) == check_field_input(fld)

\* field_BH_cuboid.py lines 198-264
BHJM_magnet_cuboid(fld, rows) ==
    IF ~cuboid_field_check(fld) THEN Raised("FieldInputError")
    ELSE IF fld = "J"
    THEN Returned([i \in DOMAIN rows |->
            IF mask_inside(rows[i]) THEN PolField(3, rows[i].polarization) ELSE ZeroField])
    ELSE IF fld = "M"
    THEN Returned([i \in DOMAIN rows |->
            DivMU0(IF mask_inside(rows[i]) THEN PolField(3, rows[i].polarization)
                   ELSE ZeroField)])
    ELSE IF fld = "B"
    THEN Returned([i \in DOMAIN rows |-> cuboid_B(rows[i])])
    ELSE IF fld = "H"
    THEN Returned([i \in DOMAIN rows |->
            DivMU0(IF mask_inside(rows[i])
                   THEN MinusPol(cuboid_B(rows[i]), rows[i].polarization)
                   ELSE cuboid_B(rows[i]))])
    ELSE Raised("ValueError")

\* field_BH_circle.py line 103, cart_to_cyl_coordinates: the square of r
circle_r2(row) == row.observers[1] * row.observers[1] + row.observers[2] * row.observers[2]
\* line 108: r0 == 0, with r0 = abs(diameter / 2)
mask1(row) == row.diameter = 0
\* line 110: abs(r - r0) < 1e-15 * r0 and z == 0; for integer lengths below 1e15
\* the first holds when r = r0 > 0
mask2(row) ==
    /\ 4 * circle_r2(row) = row.diameter * row.diameter
    /\ row.diameter # 0
    /\ row.observers[3] = 0
\* line 112
mask3(row) == circle_r2(row) = 0
\* line 114
mask4(row) == mask3(row) /\ ~mask1(row)
mask5_ring(row) == ~(mask1(row) \/ mask3(row))
\* line 122
mask5(row) == ~((mask1(row) \/ mask2(row)) \/ mask3(row))
circle_axial_whole(row) ==
    LET d == row.diameter
        z == row.observers[3]
    IN IF row.current = 0 THEN ZeroField
       ELSE GenField([f |-> "w*q^(3/2)",
                      p |-> Reduce(<<0, 0, 2 * row.current, Abs(d)>>)
                              \o Reduce(<<d * d, 4 * z * z + d * d>>)])
\* lines 115-119: (r0**2 / (z**2 + r0**2)**(3/2)) * current * 0.5 on the z axis,
\* that is (current / (2*r0)) * (r0**2 / (z**2 + r0**2))**(3/2)
circle_axial(row) ==
    LET d == row.diameter
        z == row.observers[3]
    IN IF row.current = 0 THEN ZeroField
       ELSE GenField([f |-> "w*q^(3/2)",
                      p |-> Reduce(<<0, 0, row.current, Abs(d)>>)
                              \o Reduce(<<d * d, 4 * z * z + d * d>>)])
current_circle_Hfield_unitless(row) ==
    LET d == row.diameter
    IN IF row.current = 0 THEN ZeroField
       ELSE GenField([f |-> "loop",
                      p |-> <<2 * row.current, 1>>
                              \o Reduce(<<4 * circle_r2(row), d * d>>)
                              \o Reduce(<<2 * row.observers[3], Abs(d)>>)
                              \o Reduce(<<row.observers[1], row.observers[2]>>)])
\* lines 54-82 and 131: r and z are divided by r0, pf is proportional to
\* i0 / r0, and Hr and Hz are pf times functions of the two ratios; Hr is
\* turned to the direction of (x, y)
current_circle_Hfield(row) ==
    LET d == row.diameter
    IN IF row.current = 0 THEN ZeroField
       ELSE GenField([f |-> "loop",
                      p |-> Reduce(<<2 * row.current, Abs(d)>>)
                              \o Reduce(<<4 * circle_r2(row), d * d>>)
                              \o Reduce(<<2 * row.observers[3], Abs(d)>>)
                              \o Reduce(<<row.observers[1], row.observers[2]>>)])
\* lines 97 and 113-131
circle_H(row) ==
    IF mask4(row) THEN circle_axial(row)
    ELSE IF mask5(row) THEN current_circle_Hfield(row)
    ELSE ZeroField

circle_field_unchecked(fld) == TRUE
\* line 99: check_field_input(field)
circle_field_check(fld) == check_field_input(fld)
\* line 100: field in "MJ", the test of a substring
in_MJ(fld) == fld \in {"", "M", "J", "MJ"}

\* field_BH_circle.py lines 96-141
BHJM_circle(fld, rows) ==
    IF ~circle_field_check(fld) THEN Raised("FieldInputError")
    ELSE IF in_MJ(fld) THEN Returned([i \in DOMAIN rows |-> ZeroField])
    ELSE IF fld = "H" THEN Returned([i \in DOMAIN rows |-> circle_H(rows[i])])
    ELSE IF fld = "B" THEN Returned([i \in DOMAIN rows |-> MulMU0(circle_H(rows[i]))])
    ELSE Raised("ValueError")

\* ------------------------------------------------- the kernels' memory
\* An ndarray lives in a buffer. The buffers of the caller hold the arguments:
\* observers, the shape (diameter or dimension) and the excitation
\* (polarization or current); every other buffer is made during the call.
InputBuffers == {"observers", "shape", "excitation"}
\* arr.T and arr[:, i]: a view, in the buffer of arr
View(buf) == buf
\* np.copy(arr), arr[mask] on the right of =, and the result of arithmetic: an
\* array in a buffer of its own
Copied(buf, new) == new
astype_same(buf, new) == buf
\* arr.astype(float): copy is True unless it is passed, an array in a buffer of
\* its own
astype(buf, new) == new
\* the buffers of the statements that store, of those with rows to store into
StoredBy(stmts) == {st.buf : st \in {x \in stmts : x.some}}

\* field_BH_sphere.py: line 67 copies observers.T and stores nothing; line 72
\* is arithmetic on polarization.astype(float); lines 76, 80, 83 and 97 store
\* into BHJM; lines 77 and 94 return BHJM, lines 81 and 98 BHJM / MU0
sphere_memory(fld, rows) ==
    LET bhjm == Copied(astype("excitation", "astype"), "BHJM")
        inside(row) == ~sphere_out(row)
    IN IF ~sphere_field_check(fld) THEN [stored |-> {}, ret |-> "none"]
       ELSE [stored |-> StoredBy(
                {[buf |-> bhjm, some |-> (\E i \in DOMAIN rows : sphere_out(rows[i]))]}
                \cup (IF fld = "H" /\ sphere_shapes_fit(rows)
                      THEN {[buf |-> bhjm, some |-> (\E i \in DOMAIN rows : inside(rows[i]))]} ELSE {})),
             ret |-> IF fld \in {"J", "B"} THEN bhjm ELSE Copied(bhjm, "quotient")]

\* field_BH_cuboid.py: lines 202-204 take views of the arguments and store
\* nothing; line 207 is polarization.astype(float); lines 242, 246, 249, 250 and
\* 259 store into BHJM; magnet_cuboid_Bfield gets observers[mask_gen], copies it
\* (line 67), stores the octant flips into the copy (lines 76-78) and divides
\* its own B in place (line 182); lines 243 and 256 return BHJM, lines 247 and
\* 260 BHJM / MU0
cuboid_memory(fld, rows) ==
    LET bhjm == astype("excitation", "BHJM")
        xyz == View(Copied(Copied("observers", "observers[mask_gen]"), "xyz"))
        outside(row) == ~mask_inside(row)
        flipped(row) == mask_gen(row)
                          /\ (row.observers[1] < 0 \/ row.observers[2] > 0
                                \/ row.observers[3] > 0)
    IN IF ~cuboid_field_check(fld) THEN [stored |-> {}, ret |-> "none"]
       ELSE IF fld \in {"J", "M"}
       THEN [stored |-> StoredBy({[buf |-> bhjm, some |-> (\E i \in DOMAIN rows : outside(rows[i]))]}),
             ret |-> IF fld = "J" THEN bhjm ELSE Copied(bhjm, "quotient")]
       ELSE [stored |-> StoredBy(
                {[buf |-> bhjm, some |-> TRUE],
                 [buf |-> xyz, some |-> (\E i \in DOMAIN rows : flipped(rows[i]))],
                 [buf |-> Copied("xyz", "B"), some |-> (\E i \in DOMAIN rows : mask_gen(rows[i]))]}
                \cup (IF fld = "H"
                      THEN {[buf |-> bhjm, some |-> (\E i \in DOMAIN rows : mask_inside(rows[i]))]} ELSE {})),
             ret |-> IF fld = "B" THEN bhjm ELSE Copied(bhjm, "quotient")]

\* field_BH_circle.py: line 97 makes BHJM with np.zeros_like; lines 115, 125
\* and 131 store into BHJM; current_circle_Hfield stores nothing (lines 57-58
\* bind r and z to new arrays); lines 101 and 134 return BHJM, line 137
\* BHJM * MU0
circle_memory(fld, rows) ==
    LET bhjm == Copied("observers", "BHJM")
    IN IF ~circle_field_check(fld) THEN [stored |-> {}, ret |-> "none"]
       ELSE IF in_MJ(fld) THEN [stored |-> {}, ret |-> bhjm]
       ELSE [stored |-> StoredBy({[buf |-> bhjm, some |-> TRUE]}),
             ret |-> IF fld = "H" THEN bhjm ELSE Copied(bhjm, "product")]

\* ------------------------------------------------------ the kernel inputs
Coords == -1..MaxCoord
ObserverSet == {<<x, y, z>> : x \in Coords, y \in Coords, z \in Coords}
PolarizationSet == {<<0, 0, 0>>, <<0, 0, 3>>, <<3, -6, 0>>}
DiameterSet == {0, 2, -2, 4}
DimensionSet == {<<2, 2, 2>>, <<-2, 4, 2>>, <<2, 0, 4>>, <<4, 4, 4>>}
CurrentSet == {0, -2, 1000}
\* the field selectors: the four of check_field_input and two others
FieldInputs == Fields \cup {"X", "MJ"}

SphereRows == {[observers |-> o, diameter |-> d, polarization |-> p] :
                   o \in ObserverSet, d \in DiameterSet, p \in PolarizationSet}
CuboidRows == {[observers |-> o, dimension |-> d, polarization |-> p] :
                   o \in ObserverSet, d \in DimensionSet, p \in PolarizationSet}
\* the second row of a batch of two: an observer inside and one outside
SphereSecond == {[observers |-> <<0, 0, 0>>, diameter |-> 2, polarization |-> <<3, 0, 0>>],
                 [observers |-> <<2, 0, 0>>, diameter |-> 2, polarization |-> <<3, 0, 0>>]}
CircleRows == {[observers |-> o, diameter |-> d, current |-> i] :
                   o \in ObserverSet, d \in DiameterSet, i \in CurrentSet}
CircleSecond == {[observers |-> <<0, 0, 1>>, diameter |-> 2, current |-> 3],
                 [observers |-> <<1, 1, 0>>, diameter |-> 2, current |-> 3]}
CuboidSecond == {[observers |-> <<0, 0, 0>>, dimension |-> <<2, 2, 2>>, polarization |-> <<3, 0, 0>>],
                 [observers |-> <<2, 0, 0>>, dimension |-> <<2, 2, 2>>, polarization |-> <<3, 0, 0>>]}

InitK ==
    /\ bh = TRUE
    /\ sources = <<>>
    /\ observers = [kind |-> "list", sens |-> <<>>]
    /\ sumup = FALSE
    /\ pos = [x \in ObjIds |-> PosPath(x, 1)]
    /\ rot = [x \in ObjIds |-> RotPath(x, 1)]
    /\ pos0 = pos
    /\ rot0 = rot
    /\ pc = "idle"
    /\ m = 0
    /\ reset_objects = <<>>
    /\ ti = 0
    /\ poso = <<>>
    /\ B = NoArray
    /\ warned = FALSE
    /\ err = "none"
    /\ calls = <<>>
    /\ kernel \in {"sphere", "cuboid", "circle"}
    /\ field \in FieldInputs
    /\ \/ kernel = "sphere" /\ \E r1 \in SphereRows :
              \/ batch = <<r1>>
              \/ \E r2 \in SphereSecond : batch = <<r1, r2>>
       \/ kernel = "cuboid" /\ \E r1 \in CuboidRows :
              \/ batch = <<r1>>
              \/ \E r2 \in CuboidSecond : batch = <<r1, r2>>
       \/ kernel = "circle" /\ \E r1 \in CircleRows :
              \/ batch = <<r1>>
              \/ \E r2 \in CircleSecond : batch = <<r1, r2>>
    /\ kpc = "call"
    /\ BHJM = <<>>
    /\ kerr = "none"
    /\ stored = {}
    /\ retbuf = "none"

\* the argument arrays after the call: a store into a buffer of the caller
\* lands in the caller's array (the model puts zeros there)
AfterStores(row, bufs) ==
    [a \in DOMAIN row |->
        IF \/ a = "observers" /\ "observers" \in bufs
           \/ a \in {"diameter", "dimension"} /\ "shape" \in bufs
           \/ a \in {"polarization", "current"} /\ "excitation" \in bufs
        THEN (IF a \in {"diameter", "current"} THEN 0 ELSE Zero3)
        ELSE row[a]]

\* the kernel ends: it returns its array or raises
EndKernel(res, mem) ==
    /\ kpc' = IF res.ok THEN "returned" ELSE "raised"
    /\ BHJM' = res.arr
    /\ kerr' = res.exc
    /\ stored' = mem.stored
    /\ retbuf' = IF res.ok THEN mem.ret ELSE "none"
    /\ batch' = [i \in DOMAIN batch |-> AfterStores(batch[i], mem.stored)]
    /\ UNCHANGED <<kernel, field>>
    /\ UNCHANGED lvars

CallSphere ==
    /\ kpc = "call"
    /\ kernel = "sphere"
    /\ EndKernel(BHJM_magnet_sphere(field, batch), sphere_memory(field, batch))

CallCuboid ==
    /\ kpc = "call"
    /\ kernel = "cuboid"
    /\ EndKernel(BHJM_magnet_cuboid(field, batch), cuboid_memory(field, batch))

CallCircle ==
    /\ kpc = "call"
    /\ kernel = "circle"
    /\ EndKernel(BHJM_circle(field, batch), circle_memory(field, batch))

NextK ==
    \/ CallSphere
    \/ CallCuboid
    \/ CallCircle

SpecK == InitK /\ [][NextK]_vars

\* ------------------------------------------------------- claims on kernels
\* the outcome of the called kernel for another field on the same batch
KernelOut(fld) ==
    IF kernel = "sphere" THEN BHJM_magnet_sphere(fld, batch)
    ELSE IF kernel = "cuboid" THEN BHJM_magnet_cuboid(fld, batch)
    ELSE BHJM_circle(fld, batch)

\* h + mm, both divided by MU0
FieldSum(h, mm) ==
    [gen |-> h.gen, pol3 |-> Plus3(h.pol3, mm.pol3),
     mu0 |-> IF h.mu0 = mm.mu0 THEN h.mu0 ELSE 0]

HplusM_is_B(i) ==
    /\ KernelOut("M").ok
    /\ KernelOut("B").ok
    /\ FieldSum(BHJM[i], KernelOut("M").arr[i]) = DivMU0(KernelOut("B").arr[i])

\* C10: on every row of a batch, the H the Sphere or the Cuboid kernel returns
\* plus the M it returns for that row is the B it returns divided by MU0.
C10_HplusM ==
    kpc = "returned" /\ field = "H" /\ kernel \in {"sphere", "cuboid"} =>
        \A i \in DOMAIN batch : HplusM_is_B(i)

\* C10 for the Cuboid kernel alone: called for H it returns, and the relation
\* holds on every row
C10_CuboidHplusM ==
    kpc # "call" /\ field = "H" /\ kernel = "cuboid" =>
        /\ kpc = "returned"
        /\ \A i \in DOMAIN batch : HplusM_is_B(i)

\* C10 for single rows outside a sphere
C10_SphereOutside ==
    kpc # "call" /\ field = "H" /\ kernel = "sphere" /\ Len(batch) = 1
            /\ sphere_out(batch[1]) =>
        /\ kpc = "returned"
        /\ HplusM_is_B(1)

\* the field vector is zero
IsZero(f) == f.gen = NoGen /\ f.pol3 = Zero3

\* the observer of a row is strictly inside the volume of its source
StrictlyInside(kern, row) ==
    IF kern = "sphere"
    THEN 4 * Norm2(row.observers) < row.diameter * row.diameter
    ELSE IF kern = "cuboid"
    THEN \A ax \in 1..3 : 2 * Abs(row.observers[ax]) < Abs(row.dimension[ax])
    ELSE FALSE

\* C11: for J and M the Sphere, Cuboid and Loop kernels return the zero vector
\* on every row whose observer is not strictly inside the volume of the source
\* (outside, on the bounding surface, or any observer of a source of no volume).
C11_ZeroOutsideVolume ==
    kpc = "returned" /\ field \in {"J", "M"} =>
        \A i \in DOMAIN batch :
            ~StrictlyInside(kernel, batch[i]) => IsZero(BHJM[i])

\* C11 for the Loop kernel alone, and for the observers strictly outside
C11_ZeroStrictlyOutside ==
    kpc = "returned" /\ field \in {"J", "M"} =>
        \A i \in DOMAIN batch :
            \/ kernel = "circle"
            \/ kernel = "sphere" /\ sphere_out(batch[i])
            \/ kernel = "cuboid" /\ ~mask_inside(batch[i])
            => IsZero(BHJM[i])

\* C12: for J the Sphere and the Cuboid kernel return the polarization of the
\* row on every row whose observer is inside the source, for M that vector
\* divided by MU0.
C12_InsideIsPolarization ==
    kpc = "returned" /\ kernel \in {"sphere", "cuboid"} /\ field \in {"J", "M"} =>
        \A i \in DOMAIN batch :
            StrictlyInside(kernel, batch[i]) =>
                BHJM[i] = IF field = "J" THEN PolField(3, batch[i].polarization)
                          ELSE DivMU0(PolField(3, batch[i].polarization))

\* C12 for the Cuboid kernel alone
C12_CuboidInside ==
    kernel = "cuboid" => C12_InsideIsPolarization

\* the source of a row has no extent or no excitation, in the sense of C13
ZeroSource(kern, row) ==
    IF kern = "circle" THEN row.diameter = 0 \/ row.current = 0
    ELSE IF kern = "cuboid"
    THEN (\E ax \in 1..3 : row.dimension[ax] = 0) \/ row.polarization = Zero3
    ELSE row.polarization = Zero3

\* C13: called for B or H, a kernel returns, and the row of a Loop of diameter
\* zero, of a Cuboid with a side of length zero, and of a Loop, Cuboid or Sphere
\* with zero current or polarization holds the zero vector.
C13_ZeroSource ==
    kpc # "call" /\ field \in {"B", "H"} =>
        \A i \in DOMAIN batch :
            ZeroSource(kernel, batch[i]) => kpc = "returned" /\ IsZero(BHJM[i])

\* C13 for the calls that return
C13_ZeroSourceReturned ==
    kpc = "returned" /\ field \in {"B", "H"} =>
        \A i \in DOMAIN batch : ZeroSource(kernel, batch[i]) => IsZero(BHJM[i])

\* the observer is on the bounding surface of the cuboid that is normal to ax
OnSurface(row, ax) ==
    2 * Abs(row.observers[ax]) = Abs(row.dimension[ax]) /\ row.dimension[ax] # 0
\* the observer is within the extent of the cuboid along ax
WithinExtent(row, ax) ==
    2 * Abs(row.observers[ax]) <= Abs(row.dimension[ax]) /\ row.dimension[ax] # 0
\* on two bounding surfaces at once and within the extent of the third axis
OnEdge(row) ==
    \E ax \in 1..3 :
        /\ WithinExtent(row, ax)
        /\ \A bx \in (1..3) \ {ax} : OnSurface(row, bx)
\* on one bounding surface only, within the extent of the other two axes
OnFaceOnly(row) ==
    /\ \A ax \in 1..3 : WithinExtent(row, ax)
    /\ Cardinality({ax \in 1..3 : OnSurface(row, ax)}) = 1

\* C14: for B and H the Cuboid kernel returns the zero field on a row whose
\* observer is on an edge or a corner, without the general formula; a row whose
\* observer is on a face only gets the general formula.
C14_EdgeIsZero ==
    kpc = "returned" /\ kernel = "cuboid" /\ field \in {"B", "H"} =>
        \A i \in DOMAIN batch :
            /\ OnEdge(batch[i]) => IsZero(BHJM[i])
            /\ (OnFaceOnly(batch[i]) /\ batch[i].polarization # Zero3)
                  => BHJM[i].gen.f = "cuboid"

\* C14 for B alone
C14_EdgeIsZeroB ==
    field = "B" => C14_EdgeIsZero


\* the dipole B-field of moment = volume x polarization / MU0 at observer o:
\* MU0/(4 pi) * (3 (mom.o) o - mom r^2) / r^5 with mom = (pi/6) |d|^3 pol / MU0,
\* that is (3 (m6.o) o - m6 r^2) / (24 r^5) with the integer vector m6 = |d|^3 pol
DipoleB(row) ==
    LET o == row.observers
        d == Abs(row.diameter)
        m6 == Scale3(d * d * d, row.polarization)
        r2 == Norm2(o)
        num == Plus3(Scale3(3 * Dot3(m6, o), o), Scale3(-r2, m6))
    IN IF num = Zero3 THEN ZeroField
       ELSE GenField([f |-> "w*q^(3/2)",
                      p |-> Reduce(num \o <<3 * r2 * d * d * d>>)
                              \o Reduce(<<d * d, 4 * r2>>)])

IsOutsideSphere(row) == 4 * Norm2(row.observers) > row.diameter * row.diameter

\* C15: for field B the Sphere kernel returns one value per row for any batch,
\* and on every row whose observer is outside the sphere that value is the
\* dipole field of the row's own diameter and polarization.
C15_DipoleOutside ==
    (kpc # "call" /\ kernel = "sphere" /\ field = "B")
        => /\ kpc = "returned"
           /\ Len(BHJM) = Len(batch)
           /\ \A i \in DOMAIN batch :
                  IsOutsideSphere(batch[i]) => BHJM[i] = DipoleB(batch[i])

\* whenever the Sphere kernel returns, the rows outside carry the dipole field
C15_DipoleWhenReturned ==
    (kpc = "returned" /\ kernel = "sphere" /\ field = "B")
        => /\ Len(BHJM) = Len(batch)
           /\ \A i \in DOMAIN batch :
                  IsOutsideSphere(batch[i]) => BHJM[i] = DipoleB(batch[i])


IsInsideSphere(row) == 4 * Norm2(row.observers) < row.diameter * row.diameter

\* C16: for field B the Sphere kernel returns, and every row whose observer is
\* nearer to the origin than the sphere radius carries exactly two thirds of
\* the row's polarization, whatever the observer position.
C16_InsideTwoThirds ==
    (kpc # "call" /\ kernel = "sphere" /\ field = "B")
        => /\ kpc = "returned"
           /\ \A i \in DOMAIN batch :
                  IsInsideSphere(batch[i])
                      => BHJM[i] = [gen |-> NoGen,
                                    pol3 |-> Scale3(2, batch[i].polarization),
                                    mu0 |-> 0]

\* whenever the Sphere kernel returns, the rows inside carry two thirds of the
\* polarization
C16_InsideWhenReturned ==
    (kpc = "returned" /\ kernel = "sphere" /\ field = "B")
        => \A i \in DOMAIN batch :
               IsInsideSphere(batch[i])
                   => BHJM[i] = [gen |-> NoGen,
                                 pol3 |-> Scale3(2, batch[i].polarization),
                                 mu0 |-> 0]


\* the four cases of a Loop row, from the row itself
ZeroRadius(row) == row.diameter = 0
OnRing(row) ==
    /\ row.diameter # 0
    /\ row.observers[3] = 0
    /\ 4 * (row.observers[1] * row.observers[1] + row.observers[2] * row.observers[2])
           = row.diameter * row.diameter
OnAxis(row) ==
    /\ row.diameter # 0
    /\ row.observers[1] = 0
    /\ row.observers[2] = 0
LoopCases(row) ==
    {c \in {"zero radius", "ring", "axis", "general"} :
        \/ c = "zero radius" /\ ZeroRadius(row)
        \/ c = "ring" /\ OnRing(row)
        \/ c = "axis" /\ OnAxis(row)
        \/ c = "general" /\ ~ZeroRadius(row) /\ ~OnRing(row) /\ ~OnAxis(row)}
\* the formula a value comes from: none for the zero vector
FormulaOf(f) == IF IsZero(f) THEN "zero" ELSE f.gen.f
\* the formula of a case, for a current that is not zero
CaseFormula(c) ==
    IF c = "axis" THEN "w*q^(3/2)" ELSE IF c = "general" THEN "loop" ELSE "zero"

\* C17: the Loop kernel returns for H and B; every row is in exactly one of the
\* four cases (zero radius, on the ring, on the axis, general) and its value
\* comes from the formula of that case: the zero vector, the zero vector, the
\* closed axial form, the general form; and for B every row is the H row
\* multiplied by MU0.
C17_LoopBranches ==
    (kpc # "call" /\ kernel = "circle" /\ field \in {"B", "H"})
        => /\ kpc = "returned"
           /\ Len(BHJM) = Len(batch)
           /\ \A i \in DOMAIN batch :
                  /\ Cardinality(LoopCases(batch[i])) = 1
                  /\ \A c \in LoopCases(batch[i]) :
                         FormulaOf(BHJM[i]) =
                             IF batch[i].current = 0 THEN "zero" ELSE CaseFormula(c)
                  /\ BHJM[i].pol3 = Zero3
                  /\ field = "H" => BHJM[i].mu0 = 0
                  /\ field = "B" => BHJM[i] = [KernelOut("H").arr[i] EXCEPT !.mu0 = @ + 1]

\* a batch with a row on the ring and a row on the axis was computed for B
C17_Witness ==
    /\ kpc = "returned"
    /\ kernel = "circle"
    /\ field = "B"
    /\ Len(batch) = 2
    /\ LoopCases(batch[1]) = {"ring"}
    /\ LoopCases(batch[2]) = {"axis"}
    /\ batch[1].current # 0
    /\ FormulaOf(BHJM[1]) = "zero"
    /\ FormulaOf(BHJM[2]) = "w*q^(3/2)"


RECURSIVE ISqrtIn(_, _, _)
\* the largest s in lo..hi with s * s <= sq, for lo * lo <= sq
ISqrtIn(sq, lo, hi) ==
    IF lo = hi THEN lo
    ELSE LET mid == (lo + hi + 1) \div 2
         IN IF mid * mid <= sq THEN ISqrtIn(sq, mid, hi) ELSE ISqrtIn(sq, lo, mid - 1)
\* whole square roots of numbers below 2^31
ISqrt(sq) == ISqrtIn(sq, 0, 46340)

\* the square of the z component of a value of the form w * q^(3/2), as a ratio
\* in lowest terms
HzSquared(f) ==
    LET p == f.gen.p
    IN Reduce(<<p[3] * p[3] * p[5] * p[5] * p[5], p[4] * p[4] * p[6] * p[6] * p[6]>>)
Sign(a) == IF a > 0 THEN 1 ELSE IF a < 0 THEN -1 ELSE 0

\* f is (0, 0, I * r0^2 / (2 * (z^2 + r0^2)^(3/2))) for r0 = |d| / 2, that is
\* Hz = I * d^2 / (4 z^2 + d^2)^(3/2)
IsAxialValue(f, row) ==
    LET I == row.current
        d == row.diameter
        z == row.observers[3]
        s == 4 * z * z + d * d
    IN /\ f.pol3 = Zero3
       /\ f.mu0 = 0
       /\ IF I = 0 THEN f.gen = NoGen
          ELSE /\ f.gen.f = "w*q^(3/2)"
               /\ f.gen.p[1] = 0
               /\ f.gen.p[2] = 0
               /\ Sign(f.gen.p[3]) * Sign(f.gen.p[4]) = Sign(I)
               /\ HzSquared(f) = Reduce(<<I * I * d * d * d * d, s * s * s>>)

\* the reference values for diameter 2 and current 1000 at z = 0, 1, 2, 3:
\* 500, 176.8, 44.72 and 15.81, in units of 1/unit
WebpageHz ==
    [z \in 0..3 |->
        IF z = 0 THEN [ref |-> 5000, unit |-> 10]
        ELSE IF z = 1 THEN [ref |-> 17680, unit |-> 100]
        ELSE IF z = 2 THEN [ref |-> 4472, unit |-> 100]
        ELSE [ref |-> 15810, unit |-> 1000]]
\* Hz of f is within 0.1 % of the reference for z: with s the whole part of
\* unit * Hz, 0.999 ref <= s and s + 1 <= 1.001 ref
NearWebpage(f, z) ==
    LET w == WebpageHz[z]
        h2 == HzSquared(f)
        s == ISqrt((h2[1] * w.unit * w.unit) \div h2[2])
    IN /\ Sign(f.gen.p[3]) * Sign(f.gen.p[4]) = 1
       /\ 999 * w.ref <= 1000 * s
       /\ 1000 * (s + 1) <= 1001 * w.ref
IsWebpageRow(row) ==
    /\ row.diameter = 2
    /\ row.current = 1000
    /\ row.observers[1] = 0
    /\ row.observers[2] = 0
    /\ row.observers[3] \in 0..3

\* C18: for field H the Loop kernel returns, on every row with the observer on
\* the axis of a loop of radius r0 that is not zero, the vector
\* (0, 0, I * r0^2 / (2 * (z^2 + r0^2)^(3/2))); for diameter 2, current 1000 and
\* z = 0, 1, 2, 3 this Hz is within 0.1 % of 500, 176.8, 44.72 and 15.81.
C18_AxialValue ==
    (kpc # "call" /\ kernel = "circle" /\ field = "H")
        => /\ kpc = "returned"
           /\ \A i \in DOMAIN batch :
                  (/\ batch[i].observers[1] = 0
                   /\ batch[i].observers[2] = 0
                   /\ batch[i].diameter # 0)
                      => /\ IsAxialValue(BHJM[i], batch[i])
                         /\ IsWebpageRow(batch[i])
                                => NearWebpage(BHJM[i], batch[i].observers[3])

\* the loop of diameter 2 with current 1000 was evaluated at z = 3 on its axis
C18_Witness ==
    /\ kpc = "returned"
    /\ kernel = "circle"
    /\ field = "H"
    /\ IsWebpageRow(batch[1])
    /\ batch[1].observers[3] = 3
    /\ NearWebpage(BHJM[1], 3)


\* the factors all lengths of a batch are multiplied by
Scales == {2, 3}
\* the row with its observer and its diameter or sides multiplied by fac
ScaleRow(kern, row, fac) ==
    IF kern = "cuboid"
    THEN [row EXCEPT !.observers = Scale3(fac, @), !.dimension = Scale3(fac, @)]
    ELSE [row EXCEPT !.observers = Scale3(fac, @), !.diameter = fac * @]
ScaleBatch(kern, rows, fac) == [i \in DOMAIN rows |-> ScaleRow(kern, rows[i], fac)]
\* what the kernel does for the batch with all lengths multiplied by fac
ScaledOut(fac) ==
    IF kernel = "sphere" THEN BHJM_magnet_sphere(field, ScaleBatch(kernel, batch, fac))
    ELSE IF kernel = "cuboid" THEN BHJM_magnet_cuboid(field, ScaleBatch(kernel, batch, fac))
    ELSE BHJM_circle(field, ScaleBatch(kernel, batch, fac))
\* what the kernel did for the batch
ThisOut == [ok |-> kpc = "returned", arr |-> BHJM, exc |-> kerr]
\* the value f divided by fac, for the two forms of a Loop value: both carry the
\* ratio current / length in front
DividedBy(f, fac) ==
    LET p == f.gen.p
    IN IF f.gen = NoGen THEN f
       ELSE IF f.gen.f = "w*q^(3/2)"
       THEN [f EXCEPT !.gen.p = Reduce(<<p[1], p[2], p[3], fac * p[4]>>) \o <<p[5], p[6]>>]
       ELSE [f EXCEPT !.gen.p = Reduce(<<p[1], fac * p[2]>>) \o SubSeq(p, 3, Len(p))]

C20_FieldKindError ==
    (kpc # "call" /\ field \notin {"B", "H", "M", "J"})
        => /\ kpc = "raised"
           /\ kerr = "FieldInputError"
           /\ BHJM = <<>>

\* the Loop kernel was called with the selector MJ, which the test of line 100
\* would accept, and raised the field-kind error
C20_Witness ==
    /\ kpc = "raised"
    /\ kernel = "circle"
    /\ field = "MJ"
    /\ kerr = "FieldInputError"
    /\ Len(batch) = 2


\* C21: a kernel call, whatever the field kind, stores into no buffer of the
\* caller and leaves the observers, the diameter or dimension and the current
\* or polarization of every row as they were; the array it returns is in a
\* buffer that holds none of the arguments.
C21_Pure ==
    /\ [](kpc # "call" => stored \cap InputBuffers = {} /\ retbuf \notin InputBuffers)
    /\ [][kpc = "call" => batch' = batch]_vars

\* the Cuboid kernel stored the zeros of the special cases, the octant flips
\* and the polarization of the inside rows, and returned H
C21_Witness ==
    /\ kpc = "returned"
    /\ kernel = "cuboid"
    /\ field = "H"
    /\ {"BHJM", "xyz", "B"} \subseteq stored
    /\ retbuf = "quotient"
    /\ \E i \in DOMAIN batch : mask_inside(batch[i]) /\ batch[i].polarization # Zero3


\* C22: when both groups are evaluated, slot i of the array holds, for every
\* flat index i, the field of the i-th source of the flattened list, whatever
\* the order of the geometries in the list is.
C22_SlotOfSource ==
    [](pc = "aggregate" =>
        /\ NRows(B) = l
        /\ \A i \in 1..l : Row(B, i) = FieldOf(src_list[i]))

\* both groups were evaluated for a list with a Cylinder between two Boxes
C22_Witness ==
    /\ pc = "aggregate"
    /\ l = 3
    /\ TypeOf(src_list[1]) = "Box"
    /\ TypeOf(src_list[2]) = "Cylinder"
    /\ TypeOf(src_list[3]) = "Box"
    /\ m > 1


\* the rows the kernel hands to its general formula: lines 250-254 of the
\* Cuboid kernel, lines 123-129 of the Loop kernel, lines 83-91 of the Sphere
\* kernel
FormulaRow(kern, row) ==
    IF kern = "cuboid" THEN mask_gen(row)
    ELSE IF kern = "circle" THEN mask5(row)
    ELSE sphere_out(row)
\* the value comes from the general formula of the kernel
FromGeneral(kern, f) ==
    f.gen.f = (IF kern = "cuboid" THEN "cuboid"
               ELSE IF kern = "circle" THEN "loop" ELSE "w*q^(3/2)")
\* no special case applies to the row
NoSpecialCase(kern, row) ==
    IF kern = "cuboid"
    THEN /\ row.polarization # <<0, 0, 0>>
         /\ \A ax \in 1..3 : row.dimension[ax] # 0
         /\ ~OnEdge(row)
    ELSE IF kern = "circle"
    THEN /\ row.diameter # 0
         /\ ~(row.observers[1] = 0 /\ row.observers[2] = 0)
         /\ ~OnRing(row)
    ELSE /\ 4 * Norm2(row.observers) > row.diameter * row.diameter
         /\ Norm2(row.observers) > 0

\* C23: a row that a kernel hands to its general formula is a row no special
\* case applies to, and a returned value that comes from the general formula
\* belongs to such a row: a Cuboid row with a polarization, no zero side and
\* the observer off the edges; a Loop row with a radius, the observer off the
\* axis and off the ring; a Sphere row with the observer farther from the
\* origin than the radius.
C23_GeneralOnlyWhereRegular ==
    kpc # "call" =>
        \A i \in DOMAIN batch :
            /\ FormulaRow(kernel, batch[i]) => NoSpecialCase(kernel, batch[i])
            /\ (kpc = "returned" /\ FromGeneral(kernel, BHJM[i]))
                   => NoSpecialCase(kernel, batch[i])

\* the Cuboid kernel returned B for a row on an edge, without the general
\* formula, and for a row it evaluated the general formula on
C23_Witness ==
    /\ kpc = "returned"
    /\ kernel = "cuboid"
    /\ field = "B"
    /\ Len(batch) = 2
    /\ OnEdge(batch[1])
    /\ batch[1].polarization # Zero3
    /\ BHJM[1].gen = NoGen
    /\ BHJM[2].gen.f = "cuboid"


\* the number of getBH_level1 calls made for src_type t
CallsFor(t) == Cardinality({c \in DOMAIN calls : calls[c] = t})
\* the geometries of the flattened sources
GeometriesPresent == {TypeOf(src_list[i]) : i \in DOMAIN src_list}

\* C24: when both groups are evaluated, getBH_level1 was called once for each
\* geometry that has a source and not at all for a geometry that has none; the
\* number of calls is the number of geometries present, whatever the numbers of
\* sources, path steps and observer samples are; no call is made before the
\* evaluation.
C24_OneCallPerGroup ==
    /\ pc \in {"aggregate", "reshape", "sumup", "squeeze", "reset", "reset_rot", "done"}
          => /\ \A t \in {"Box", "Cylinder"} :
                    CallsFor(t) = IF t \in GeometriesPresent THEN 1 ELSE 0
             /\ Len(calls) = Cardinality(GeometriesPresent)
    /\ pc \in {"format", "path", "tile", "tile_rot", "merge", "group", "eval_box"}
          => calls = <<>>

\* two Boxes on a path of several steps, seen by several samples, were
\* evaluated in one call, and no call was made for the Cylinders
C24_Witness ==
    /\ pc = "done"
    /\ calls = <<"Box">>
    /\ l = 2
    /\ m > 1
    /\ n > 1


\* the number of samples of the s-th sensor and of the sensors before it
SensorSamples(s) == Len(pos_pix(sensors[s]).data)
SamplesBefore(s) == SeqSum([x \in 1..(s - 1) |-> SensorSamples(x)])
\* the sensor that the p-th sample of all sensors, in sensor order, belongs to
OwnerOf(p) ==
    CHOOSE s \in 1..k : SamplesBefore(s) < p /\ p <= SamplesBefore(s) + SensorSamples(s)
\* the global position of that sample at step j: its sensor's rotation of step
\* j, then its sensor's translation of step j
GlobalSample(p, j) ==
    LET sens == sensors[OwnerOf(p)]
    IN rot[sens][j] * pos_pix(sens).data[p - SamplesBefore(OwnerOf(p))] + pos[sens][j]

\* C25: with n the number of samples of all sensors, the columnar input of a
\* group has one row for every member g, step j and sample p, at place
\* g*m*n + j*n + p (counted from 0), and that row carries the magnetization and
\* the dimension of member g, its position and rotation at step j, and the
\* global position at step j of the p-th sample of the sensors taken in order.
C25_RowAlignment ==
    [](\A t \in {"Box", "Cylinder"} :
        LET group == src_sorted(src_list, t)
            src_dict == scr_dict_homo_mag(group, poso)
        IN (pc = (IF t = "Box" THEN "eval_box" ELSE "eval_cyl") /\ group # <<>>) =>
            /\ n = TotalSamples
            /\ DOMAIN src_dict = 1..(Len(group) * m * n)
            /\ \A j \in 1..m, p \in 1..n :
                   LET sample == GlobalSample(p, j)
                   IN \A g \in 1..Len(group) :
                          src_dict[(g - 1) * m * n + (j - 1) * n + p] =
                              [mag |-> mag(group[g]), dim |-> dim(group[g]),
                               pos |-> pos[group[g]][j], rot |-> rot[group[g]][j],
                               pos_obs |-> sample])

\* a group of two Boxes is evaluated on a path of several steps for two
\* sensors with different numbers of samples
C25_Witness ==
    /\ pc = "eval_box"
    /\ Len(src_sorted(src_list, "Box")) = 2
    /\ m > 1
    /\ k = 2
    /\ SensorSamples(1) # SensorSamples(2)


\* C26: in every state of a call, every object has a position path and a
\* rotation path of the same length, between the two assignments of lines
\* 110-112 and of lines 186-187 too.
C26_EqualLengths ==
    \A o \in ObjIds : Len(pos[o]) = Len(rot[o])

\* the object whose position path is assigned and whose rotation path is not
\* yet: the one being tiled or the one being reset
Halfway ==
    IF pc = "tile_rot" THEN {obj_list[ti]}
    ELSE IF pc = "reset_rot" THEN {reset_objects[ti]}
    ELSE {}

\* the lengths differ only between a position assignment and the rotation
\* assignment that follows it: there the object being tiled has m positions
\* and one rotation, the object being reset one position and m rotations, and
\* every other object has equal lengths
C26_LengthsInPairs ==
    /\ \A o \in ObjIds \ Halfway : Len(pos[o]) = Len(rot[o])
    /\ \A o \in Halfway :
           /\ m > 1
           /\ Len(pos[o]) = (IF pc = "tile_rot" THEN m ELSE 1)
           /\ Len(rot[o]) = (IF pc = "tile_rot" THEN 1 ELSE m)


\* the slots a group writes
SlotsOf(t) == Range(order(src_list, t))
\* the array with the Cylinder group evaluated before the Box group, on a
\* buffer that held g
CylinderFirst(g) ==
    EvalGroup(EvalGroup(np_empty(<<l, m, n, 3>>, g), src_list, "Cylinder"),
              src_list, "Box")

\* C27: when both groups are evaluated, the slots of the Box group and of the
\* Cylinder group are disjoint and together all of 1..l, no group writes a slot
\* twice, and the array is the one that the other order of the two groups
\* gives, whatever the buffer held before.
C27_DisjointCover ==
    pc = "aggregate" =>
        /\ SlotsOf("Box") \cap SlotsOf("Cylinder") = {}
        /\ SlotsOf("Box") \cup SlotsOf("Cylinder") = 1..l
        /\ NoDup(order(src_list, "Box"))
        /\ NoDup(order(src_list, "Cylinder"))
        /\ \A g \in Garbage : B = CylinderFirst(g)

\* both groups wrote slots, for a list that has its Cylinder before a Box
C27_Witness ==
    /\ pc = "aggregate"
    /\ SlotsOf("Box") # {}
    /\ SlotsOf("Cylinder") # {}
    /\ TypeOf(src_list[1]) = "Cylinder"
    /\ B.data # <<>>

====
